---- MODULE Spec2Model ----
(***************************************************************************)
(* linkedin-analyzer: the text-repair functions (core/text.py), the        *)
(* configuration model (core/types.py), the spreadsheet formatter          *)
(* (core/excel.py), the cleaning pipeline run_cleaner (core/cleaner.py)    *)
(* and the command line (cli.py).                                          *)
(*                                                                         *)
(* A Python str is a sequence of one-character strings.  A Python value is *)
(* a record tagged by kind: "str", "int", "none" (None), "nan" (float NaN  *)
(* / pandas NA) or "list".                                                 *)
(***************************************************************************)
EXTENDS Integers, Sequences, FiniteSets, TLC

VARIABLES
    files,      \* file system: path -> content record
    dirs,       \* file system: the set of directories that exist
    files0,     \* history: the files as they were before any invocation started
    dirs0,      \* history: the directories before any invocation started
    cfg,        \* invocation -> its CleanerConfig (immutable)
    fault,      \* invocation -> the one call of the environment that raises for it
    pc,         \* invocation -> the stage it is in
    df,         \* invocation -> its local DataFrame
    parsed,     \* history: invocation -> the DataFrame as read_csv returned it
    result,     \* invocation -> the CleanerResult it returned
    nresults,   \* history: invocation -> number of CleanerResults it returned
    exc,        \* history: invocation -> the exception raised in it
    trace,      \* history: invocation -> the stages it entered, in order
    value,      \* pure functions: the argument handed to one
    fn,         \* pure functions: the one applied
    out,        \* pure functions: what it returned
    err,        \* pure functions: the exception it raised
    again,      \* repair functions: what further passes over the output returned
    argv,       \* main: the command line
    command,    \* main: args.command
    mainpc,     \* main: where the control is
    exit_code,  \* run_all: its local exit_code
    status,     \* main: how it ended, the value returned or the exit raised
    calls       \* history: the pipelines main called and how they ended, in order

vars == <<files, dirs, files0, dirs0, cfg, fault, pc, df, parsed, result,
          nresults, exc, trace, value, fn, out, err, again,
          argv, command, mainpc, exit_code, status, calls>>

pipelineVars == <<files, dirs, files0, dirs0, cfg, fault, pc, df, parsed,
                  result, nresults, exc, trace>>

textVars == <<value, fn, out, err, again>>

cliVars == <<argv, command, mainpc, exit_code, status, calls>>

-----------------------------------------------------------------------------
(* Bounds of the model *)

\* longest enumerated input string of the repair functions
MaxLen == 4
\* most rows of an enumerated input dataset
MaxRows == 2
\* most rows of a dataset when two invocations run concurrently
MaxRowsConc == 1
\* longest enumerated list handed to is_missing
MaxItems == 2
\* most rows of a dataset the command line is run on
MaxRowsCli == 1
\* most descriptors of the configurations enumerated in full
MaxCols == 3

-----------------------------------------------------------------------------
(* Python strings *)

QUOTE == "\""
NEWLINE == "\n"
BACKSLASH == "\\"
SPACE == " "

\* the characters str.strip() removes that the enumerated strings can hold
Whitespace == {SPACE, NEWLINE, "\t", "\r"}

startswith(text, prefix) ==
    /\ Len(text) >= Len(prefix)
    /\ SubSeq(text, 1, Len(prefix)) = prefix

endswith(text, suffix) ==
    /\ Len(text) >= Len(suffix)
    /\ SubSeq(text, Len(text) - Len(suffix) + 1, Len(text)) = suffix

\* str.replace(old, new), old non-empty: leftmost matches, non-overlapping
RECURSIVE replace(_, _, _)
replace(text, old, new) ==
    IF Len(text) < Len(old) THEN text
    ELSE IF SubSeq(text, 1, Len(old)) = old
         THEN new \o replace(SubSeq(text, Len(old) + 1, Len(text)), old, new)
         ELSE <<Head(text)>> \o replace(Tail(text), old, new)

RECURSIVE lstrip(_)
lstrip(text) ==
    IF text # <<>> /\ Head(text) \in Whitespace THEN lstrip(Tail(text)) ELSE text

RECURSIVE rstrip(_)
rstrip(text) ==
    IF text # <<>> /\ text[Len(text)] \in Whitespace
    THEN rstrip(SubSeq(text, 1, Len(text) - 1))
    ELSE text

strip(text) == rstrip(lstrip(text))

DigitChars == <<"0", "1", "2", "3", "4", "5", "6", "7", "8", "9">>

RECURSIVE digits(_)
digits(n) ==
    IF n < 10 THEN <<DigitChars[n + 1]>>
    ELSE digits(n \div 10) \o <<DigitChars[(n % 10) + 1]>>

\* str(value) of a value that is not missing
str(v) ==
    CASE v.kind = "str" -> v.s
      [] v.kind = "int" -> IF v.n < 0 THEN <<"-">> \o digits(-v.n) ELSE digits(v.n)
      [] v.kind = "none" -> <<"N", "o", "n", "e">>
      [] v.kind = "nan" -> <<"n", "a", "n">>

StrVal(s) == [kind |-> "str", s |-> s]
IntVal(n) == [kind |-> "int", n |-> n]
None == [kind |-> "none"]
NaN == [kind |-> "nan"]
\* a Python list of scalars
ListVal(items) == [kind |-> "list", items |-> items]

-----------------------------------------------------------------------------
(* core/text.py *)

Raise(type, msg) == [raised |-> TRUE, type |-> type, msg |-> msg]
Return(v) == [raised |-> FALSE, value |-> v]

\* pd.isna(value): a bool for a scalar, the element-wise array of bools for a
\* list
isna(v) ==
    CASE v.kind \in {"none", "nan"} -> [kind |-> "bool", b |-> TRUE]
      [] v.kind = "list" ->
            [kind |-> "array",
             items |-> [k \in 1..Len(v.items) |-> v.items[k].kind \in {"none", "nan"}]]
      [] OTHER -> [kind |-> "bool", b |-> FALSE]

\* if isinstance(result, bool): return result; return bool(result).  bool() of
\* an array of one element is that element, of a longer array raises
\* ValueError; of an empty array it is False or, from numpy 2.2 on, raises
\* ValueError, which is_missing turns into False as well
bool(res) ==
    CASE res.kind = "bool" -> Return(res.b)
      [] res.kind = "array" /\ Len(res.items) = 1 -> Return(res.items[1])
      [] res.kind = "array" /\ Len(res.items) = 0 -> Return(FALSE)
      [] OTHER -> Raise("ValueError",
            <<"The truth value of an array with more than one element is ambiguous">>)

is_missing(v) ==
    IF v.kind = "none" THEN TRUE
    ELSE LET res == bool(isna(v))
         IN  IF res.raised THEN FALSE ELSE res.value

\* clean_shares_commentary with the steps out of order: the doubled quotes are
\* collapsed before the leading and trailing quote are dropped
clean_shares_commentary_collapse_first(v) ==
    IF is_missing(v) THEN <<>>
    ELSE LET t0 == replace(str(v), <<QUOTE, QUOTE>>, <<QUOTE>>)
             t1 == IF startswith(t0, <<QUOTE>>) THEN Tail(t0) ELSE t0
             t2 == IF endswith(t1, <<QUOTE>>) THEN SubSeq(t1, 1, Len(t1) - 1) ELSE t1
             t3 == replace(t2, <<QUOTE, NEWLINE, QUOTE>>, <<NEWLINE>>)
         IN  strip(t3)

clean_shares_commentary(v) ==
    IF is_missing(v) THEN <<>>
    ELSE LET t0 == str(v)
             t1 == IF startswith(t0, <<QUOTE>>) THEN Tail(t0) ELSE t0
             t2 == IF endswith(t1, <<QUOTE>>) THEN SubSeq(t1, 1, Len(t1) - 1) ELSE t1
             t3 == replace(t2, <<QUOTE, NEWLINE, QUOTE>>, <<NEWLINE>>)
             t4 == replace(t3, <<QUOTE, QUOTE>>, <<QUOTE>>)
         IN  strip(t4)

\* clean_comments_message with the steps out of order: the doubled quotes are
\* collapsed before the escaped quotes are unescaped
clean_comments_message_collapse_first(v) ==
    IF is_missing(v) THEN <<>>
    ELSE LET t0 == str(v)
             t1 == replace(t0, <<QUOTE, QUOTE>>, <<QUOTE>>)
             t2 == replace(t1, <<BACKSLASH, QUOTE>>, <<QUOTE>>)
         IN  strip(t2)

\* clean_comments_message gone wrong: the lines are joined by spaces
clean_comments_message_joins_lines(v) ==
    IF is_missing(v) THEN <<>>
    ELSE LET t0 == str(v)
             t1 == replace(t0, <<BACKSLASH, QUOTE>>, <<QUOTE>>)
             t2 == replace(t1, <<QUOTE, QUOTE>>, <<QUOTE>>)
         IN  strip(replace(t2, <<NEWLINE>>, <<SPACE>>))

clean_comments_message(v) ==
    IF is_missing(v) THEN <<>>
    ELSE LET t0 == str(v)
             t1 == replace(t0, <<BACKSLASH, QUOTE>>, <<QUOTE>>)
             t2 == replace(t1, <<QUOTE, QUOTE>>, <<QUOTE>>)
         IN  strip(t2)

\* clean_empty_field gone wrong: the text is compared before it is stripped
clean_empty_field_compares_unstripped(v) ==
    IF is_missing(v) THEN <<>>
    ELSE LET text == str(v)
         IN  IF text \in {<<QUOTE, QUOTE>>, <<QUOTE>>, <<>>} THEN <<>> ELSE strip(text)

clean_empty_field(v) ==
    IF is_missing(v) THEN <<>>
    ELSE LET text == strip(str(v))
         IN  IF text \in {<<QUOTE, QUOTE>>, <<QUOTE>>, <<>>} THEN <<>> ELSE text

\* text = str(value) gone wrong: the value is not converted
text_object_unconverted(v) == v

\* text = str(value): the object the str methods are looked up on
text_object(v) == StrVal(str(v))

RepairFunctions ==
    {"clean_shares_commentary", "clean_comments_message", "clean_empty_field"}

\* a call of a repair function: the str it returns, or the AttributeError of
\* the first str method looked up on an object that is no str
repair(name, v) ==
    IF is_missing(v) THEN Return(<<>>)
    ELSE IF text_object(v).kind # "str"
    THEN Raise("AttributeError", <<"object has no attribute 'strip'">>)
    ELSE Return(CASE name = "clean_shares_commentary" -> clean_shares_commentary(v)
                  [] name = "clean_comments_message" -> clean_comments_message(v)
                  [] name = "clean_empty_field" -> clean_empty_field(v))

-----------------------------------------------------------------------------
(* core/types.py *)

\* ColumnConfig(name, width=20, wrap_text=False, cleaner=None); a cleaner is
\* named by a string, "" for None
ColumnConfig(name, width, wrap_text, cleaner) ==
    [name |-> name, width |-> width, wrap_text |-> wrap_text, cleaner |-> cleaner]

Path(dir, name) == [dir |-> dir, name |-> name]

\* str(path), the text an f-string puts for a path
PathStr(p) == <<p.dir, "/", p.name>>

CleanerConfig(input_path, output_path, columns) ==
    [input_path |-> input_path, output_path |-> output_path, columns |-> columns]

letters ==
    <<"A", "B", "C", "D", "E", "F", "G", "H", "I", "J", "K", "L", "M",
      "N", "O", "P", "Q", "R", "S", "T", "U", "V", "W", "X", "Y", "Z">>

required_columns(config) ==
    [i \in 1..Len(config.columns) |-> config.columns[i].name]

\* column_widths gone wrong: the descriptors past the last letter are left out
column_widths_up_to_z(config) ==
    Return([l \in {letters[i] : i \in 1..Len(config.columns) \cap 1..Len(letters)} |->
                config.columns[CHOOSE i \in 1..Len(letters) : letters[i] = l].width])

\* {letters[i]: col.width for i, col in enumerate(self.columns)}: letters[i]
\* raises IndexError past the last letter
column_widths(config) ==
    IF Len(config.columns) > Len(letters)
    THEN Raise("IndexError", <<"string index out of range">>)
    ELSE Return([l \in {letters[i] : i \in 1..Len(config.columns)} |->
                    config.columns[CHOOSE i \in 1..Len(config.columns) :
                                       letters[i] = l].width])

RECURSIVE wrap_from(_, _)
wrap_from(columns, i) ==
    IF i > Len(columns) THEN <<>>
    ELSE (IF columns[i].wrap_text THEN <<i>> ELSE <<>>) \o wrap_from(columns, i + 1)

\* wrap_text_columns gone wrong: the positions are counted from 0
wrap_text_columns_zero_based(config) ==
    [k \in 1..Len(wrap_from(config.columns, 1)) |-> wrap_from(config.columns, 1)[k] - 1]

wrap_text_columns(config) == wrap_from(config.columns, 1)

CleanerResult(success, rows_processed, input_path, output_path, error) ==
    [success |-> success, rows_processed |-> rows_processed,
     input_path |-> input_path, output_path |-> output_path, error |-> error]

-----------------------------------------------------------------------------
(* File contents *)

Absent == [kind |-> "absent"]
\* an input CSV file, held as the table read_csv parses from it
Csv(columns, rows) == [kind |-> "csv", columns |-> columns, rows |-> rows]
\* an input location whose status cannot be read (a directory on the way to
\* it denies search permission): stat raises PermissionError
Inaccessible == [kind |-> "noaccess"]
\* an output file that was there before the run
OldFile == [kind |-> "old"]
\* what a write that raised part-way leaves behind
Partial == [kind |-> "partial"]

NoWidths == [l \in {} |-> 0]

\* the workbook DataFrame.to_excel(index=False) writes: a header row and one
\* row per DataFrame row, no formatting applied
Workbook(frame) ==
    [kind |-> "xlsx", header |-> frame.columns, rows |-> frame.rows,
     widths |-> NoWidths, wrapped |-> {}, header_centered |-> FALSE]

DataFrame(columns, rows) == [columns |-> columns, rows |-> rows]
NoFrame == [columns |-> <<>>, rows |-> <<>>, unset |-> TRUE]

Range(seq) == {seq[i] : i \in 1..Len(seq)}

-----------------------------------------------------------------------------
(* core/excel.py *)

\* format_excel_output on the loaded workbook wb: the workbook to save, or the
\* exception raised before wb.save
format_workbook(wb, config) ==
    LET cw == column_widths(config)
        wrap_columns == wrap_text_columns(config)
    IN  IF cw.raised THEN cw
        ELSE Return([wb EXCEPT
                !.widths = cw.value,
                !.wrapped = {<<r, c>> \in (1..Len(wb.rows)) \X (1..Len(wb.header)) :
                                c \in Range(wrap_columns)},
                !.header_centered = TRUE])

-----------------------------------------------------------------------------
(* core/cleaner.py *)

Lower == <<"a", "b", "h">>
Upper == <<"A", "B", "H">>

\* str.upper() on the characters the model's strings hold
upper(text) ==
    [i \in 1..Len(text) |->
        IF \E k \in 1..Len(Lower) : Lower[k] = text[i]
        THEN Upper[CHOOSE k \in 1..Len(Lower) : Lower[k] = text[i]]
        ELSE text[i]]

\* col_config.cleaner(value): the repair functions of core/text.py, the
\* uppercase_cleaner of the tests, and a callable that raises
call_cleaner(cleaner, v) ==
    CASE cleaner = "clean_shares_commentary" -> Return(StrVal(clean_shares_commentary(v)))
      [] cleaner = "clean_comments_message" -> Return(StrVal(clean_comments_message(v)))
      [] cleaner = "clean_empty_field" -> Return(StrVal(clean_empty_field(v)))
      [] cleaner = "uppercase_cleaner" -> Return(StrVal(upper(str(v))))
      [] cleaner = "raising_cleaner" -> Raise("ValueError", <<"bad cell">>)

\* missing_columns gone wrong: only the first missing column is reported
missing_columns_first_only(frame, required) ==
    LET all == SelectSeq(required, LAMBDA col : col \notin Range(frame.columns))
    IN  IF all = <<>> THEN <<>> ELSE <<Head(all)>>

\* missing = [col for col in required if col not in df.columns]
missing_columns(frame, required) ==
    SelectSeq(required, LAMBDA col : col \notin Range(frame.columns))

RECURSIVE join(_, _)
join(sep, items) ==
    IF items = <<>> THEN <<>>
    ELSE IF Len(items) = 1 THEN <<items[1]>>
    ELSE <<items[1], sep>> \o join(sep, Tail(items))

validate_columns(frame, required) ==
    LET missing == missing_columns(frame, required)
    IN  IF missing # <<>>
        THEN Raise("ValueError", <<"Missing required columns: ">> \o join(", ", missing))
        ELSE Return(None)

\* df[name] = df[name].apply(cleaner): the cleaner on every value of the
\* column in row order; the first call that raises ends it
apply_column(frame, name, cleaner) ==
    IF \E r \in 1..Len(frame.rows) : call_cleaner(cleaner, frame.rows[r][name]).raised
    THEN call_cleaner(cleaner,
            frame.rows[CHOOSE r \in 1..Len(frame.rows) :
                /\ call_cleaner(cleaner, frame.rows[r][name]).raised
                /\ \A q \in 1..(r - 1) :
                     ~call_cleaner(cleaner, frame.rows[q][name]).raised][name])
    ELSE Return([frame EXCEPT !.rows =
            [r \in 1..Len(frame.rows) |->
                [frame.rows[r] EXCEPT ![name] = call_cleaner(cleaner, @).value]]])

\* apply_cleaners gone wrong: the loop ends after the first column that has a
\* cleaner
RECURSIVE apply_cleaners_first_only(_, _, _)
apply_cleaners_first_only(frame, columns, i) ==
    IF i > Len(columns) THEN Return(frame)
    ELSE IF columns[i].cleaner = "" THEN apply_cleaners_first_only(frame, columns, i + 1)
    ELSE apply_column(frame, columns[i].name, columns[i].cleaner)

\* for col_config in config.columns: if col_config.cleaner is not None: ...
RECURSIVE apply_cleaners(_, _, _)
apply_cleaners(frame, columns, i) ==
    IF i > Len(columns) THEN Return(frame)
    ELSE IF columns[i].cleaner = "" THEN apply_cleaners(frame, columns, i + 1)
    ELSE LET r == apply_column(frame, columns[i].name, columns[i].cleaner)
         IN  IF r.raised THEN r ELSE apply_cleaners(r.value, columns, i + 1)

\* missing_input_result gone wrong: the error text leaves the path out
missing_input_result_no_path(config) ==
    CleanerResult(FALSE, 0, config.input_path, config.output_path,
                  StrVal(<<"Input file does not exist">>))

\* the CleanerResult returned when the input does not exist (lines 44-50)
missing_input_result(config) ==
    CleanerResult(FALSE, 0, config.input_path, config.output_path,
                  StrVal(<<"Input file does not exist: ">> \o PathStr(config.input_path)))

\* the CleanerResult the except clause returns (lines 84-90): error=str(e)
failure_result(config, e) ==
    CleanerResult(FALSE, 0, config.input_path, config.output_path, StrVal(e.msg))

\* success_result gone wrong: the columns are counted, not the rows
success_result_counts_columns(config, frame) ==
    CleanerResult(TRUE, Len(frame.columns), config.input_path, config.output_path, None)

\* the CleanerResult returned at the end of the try block (lines 75-80)
success_result(config, frame) ==
    CleanerResult(TRUE, Len(frame.rows), config.input_path, config.output_path, None)

-----------------------------------------------------------------------------
(* Configurations and inputs *)

\* cleaners/shares.py
SHARES_COLUMNS ==
    <<ColumnConfig("Date", 20, FALSE, ""),
      ColumnConfig("ShareLink", 60, FALSE, ""),
      ColumnConfig("ShareCommentary", 100, TRUE, "clean_shares_commentary"),
      ColumnConfig("SharedUrl", 30, FALSE, "clean_empty_field"),
      ColumnConfig("MediaUrl", 30, FALSE, "clean_empty_field"),
      ColumnConfig("Visibility", 18, FALSE, "")>>

\* cleaners/comments.py
COMMENTS_COLUMNS ==
    <<ColumnConfig("Date", 20, FALSE, ""),
      ColumnConfig("Link", 60, FALSE, ""),
      ColumnConfig("Message", 100, TRUE, "clean_comments_message")>>

SharesCleanerConfig ==
    CleanerConfig(Path("data/input", "Shares.csv"),
                  Path("data/output", "Shares.xlsx"), SHARES_COLUMNS)

CommentsCleanerConfig ==
    CleanerConfig(Path("data/input", "Comments.csv"),
                  Path("data/output", "Comments.xlsx"), COMMENTS_COLUMNS)

\* tests/test_cleaner.py: one column with the uppercase cleaner, input and
\* output in one directory
UppercaseConfig ==
    CleanerConfig(Path("tmp", "test.csv"), Path("tmp", "test.xlsx"),
                  <<ColumnConfig("Name", 20, FALSE, "uppercase_cleaner")>>)

\* a configuration whose repair function raises, second column wrapped
RaisingConfig ==
    CleanerConfig(Path("tmp", "test.csv"), Path("tmp/out", "test.xlsx"),
                  <<ColumnConfig("Message", 50, TRUE, "raising_cleaner"),
                    ColumnConfig("Date", 20, FALSE, "")>>)

LongNames == letters \o <<"AA">>

\* n descriptors that differ in name and width, every third one wrapped
LongColumns(n) == [i \in 1..n |-> ColumnConfig(LongNames[i], 10 + i, i % 3 = 0, "")]

\* a configuration of one descriptor more than there are letters
WideConfig ==
    CleanerConfig(Path("tmp", "wide.csv"), Path("tmp", "wide.xlsx"),
                  LongColumns(Len(letters) + 1))

Configs ==
    {SharesCleanerConfig, CommentsCleanerConfig, UppercaseConfig, RaisingConfig,
     WideConfig}

\* the header rows of the enumerated input files
Headers ==
    {<<"Date", "ShareLink", "ShareCommentary", "SharedUrl", "MediaUrl", "Visibility">>,
     <<"Date", "Link", "Message">>,
     <<"Name">>,
     <<"Message", "Extra", "Link", "Date">>,
     <<"Visibility", "Date">>,
     LongNames}

AllColumns ==
    <<"Date", "ShareLink", "ShareCommentary", "SharedUrl", "MediaUrl", "Visibility",
      "Link", "Message", "Name", "Extra">> \o LongNames

\* the cell values of the enumerated input files
Samples ==
    <<StrVal(<<QUOTE, "a", QUOTE>>),
      StrVal(<<SPACE, "h", QUOTE, QUOTE, "b", SPACE>>),
      NaN,
      IntVal(12),
      StrVal(<<BACKSLASH, QUOTE, "b", NEWLINE>>)>>

ColumnIndex(name) == CHOOSE k \in 1..Len(AllColumns) : AllColumns[k] = name

\* the k-th kind of input row: its cells differ from column to column
Row(k, header) ==
    [c \in Range(header) |-> Samples[((k + ColumnIndex(c)) % Len(Samples)) + 1]]

RowKinds == 1..3

SeqsUpTo(S, n) == UNION {[1..m -> S] : m \in 0..n}

InputContents(headers, kinds, maxRows) ==
    {Absent, Inaccessible} \cup
    {Csv(h, [r \in 1..Len(ks) |-> Row(ks[r], h)]) :
        h \in headers, ks \in SeqsUpTo(kinds, maxRows)}

\* the one call of the environment that raises during an invocation, if any:
\* mkdir, read_csv, to_excel, load_workbook, wb.save
Faults == {"none", "mkdir", "read", "write", "load", "save"}

EnvError(f, config) ==
    CASE f = "stat" -> Raise("PermissionError",
                <<"[Errno 13] Permission denied: ">> \o PathStr(config.input_path))
      [] f = "mkdir" -> Raise("PermissionError",
                <<"[Errno 13] Permission denied: ", config.output_path.dir>>)
      [] f = "read" -> Raise("ParserError", <<"Error tokenizing data">>)
      [] f = "write" -> Raise("OSError", <<"[Errno 28] No space left on device">>)
      [] f = "load" -> Raise("BadZipFile", <<"File is not a zip file">>)
      [] f = "save" -> Raise("OSError", <<"[Errno 28] No space left on device">>)

NoException == [raised |-> FALSE]
NoResult == [unset |-> TRUE]
NoStatus == [kind |-> "running"]

-----------------------------------------------------------------------------
(* run_cleaner, one action per stage *)

Active == DOMAIN pc

\* next_stage gone wrong: validation is skipped
next_stage_skips_validate(s) ==
    CASE s = "START" -> "CHECK_EXISTS"
      [] s = "CHECK_EXISTS" -> "PREPARE"
      [] s = "PREPARE" -> "READ"
      [] s = "READ" -> "REPAIR"
      [] s = "VALIDATE" -> "REPAIR"
      [] s = "REPAIR" -> "EXPORT"
      [] s = "EXPORT" -> "FORMAT"
      [] s = "FORMAT" -> "SUCCESS"

\* next_stage gone wrong: the export is done before the repair
next_stage_export_first(s) ==
    CASE s = "START" -> "CHECK_EXISTS"
      [] s = "CHECK_EXISTS" -> "PREPARE"
      [] s = "PREPARE" -> "READ"
      [] s = "READ" -> "VALIDATE"
      [] s = "VALIDATE" -> "EXPORT"
      [] s = "EXPORT" -> "REPAIR"
      [] s = "REPAIR" -> "FORMAT"
      [] s = "FORMAT" -> "SUCCESS"

\* next_stage gone wrong: the output directory is made before the input is
\* looked for
next_stage_prepare_first(s) ==
    CASE s = "START" -> "PREPARE"
      [] s = "PREPARE" -> "CHECK_EXISTS"
      [] s = "CHECK_EXISTS" -> "READ"
      [] s = "READ" -> "VALIDATE"
      [] s = "VALIDATE" -> "REPAIR"
      [] s = "REPAIR" -> "EXPORT"
      [] s = "EXPORT" -> "FORMAT"
      [] s = "FORMAT" -> "SUCCESS"

\* the stage entered when stage s completes without error
next_stage(s) ==
    CASE s = "START" -> "CHECK_EXISTS"
      [] s = "CHECK_EXISTS" -> "PREPARE"
      [] s = "PREPARE" -> "READ"
      [] s = "READ" -> "VALIDATE"
      [] s = "VALIDATE" -> "REPAIR"
      [] s = "REPAIR" -> "EXPORT"
      [] s = "EXPORT" -> "FORMAT"
      [] s = "FORMAT" -> "SUCCESS"

Enter(i, s) ==
    /\ pc' = [pc EXCEPT ![i] = s]
    /\ trace' = [trace EXCEPT ![i] = Append(@, s)]

Advance(i) == Enter(i, next_stage(pc[i]))

\* return CleanerResult(...)
ReturnResult(i, r) ==
    /\ result' = [result EXCEPT ![i] = r]
    /\ nresults' = [nresults EXCEPT ![i] = @ + 1]

\* except Exception as e: return CleanerResult(success=False, ...)
Caught(i, e) ==
    /\ exc' = [exc EXCEPT ![i] = e]
    /\ ReturnResult(i, failure_result(cfg[i], e))
    /\ Enter(i, "FAIL")

\* the call of run_cleaner: input_path and output_path are bound
Invoke(i) ==
    /\ pc[i] = "START"
    /\ Advance(i)
    /\ UNCHANGED <<files, dirs, files0, dirs0, cfg, fault, df, parsed, result,
                   nresults, exc, textVars, cliVars>>

\* input_path.exists(): pathlib's Path.exists() returns False for "not found"
\* and re-raises any other OSError of stat
exists(fs, config) ==
    CASE fs[config.input_path].kind = "noaccess" -> EnvError("stat", config)
      [] fs[config.input_path].kind = "absent" -> Return(FALSE)
      [] OTHER -> Return(TRUE)

\* if not input_path.exists(): return CleanerResult(success=False, ...)
\* the call is outside the try block: what it raises leaves run_cleaner
CheckExists(i) ==
    /\ pc[i] = "CHECK_EXISTS"
    /\ LET r == exists(files, cfg[i])
       IN  IF r.raised
           THEN /\ exc' = [exc EXCEPT ![i] = r]
                /\ Enter(i, "RAISED")
                /\ UNCHANGED <<result, nresults>>
           ELSE IF ~r.value
           THEN /\ ReturnResult(i, missing_input_result(cfg[i]))
                /\ Enter(i, "FAIL")
                /\ UNCHANGED exc
           ELSE /\ Advance(i)
                /\ UNCHANGED <<result, nresults, exc>>
    /\ UNCHANGED <<files, dirs, files0, dirs0, cfg, fault, df, parsed, textVars, cliVars>>

\* mkdir gone wrong: exist_ok is left out, an existing directory raises
mkdir_without_exist_ok(existing, config, f) ==
    IF f = "mkdir" THEN EnvError("mkdir", config)
    ELSE IF config.output_path.dir \in existing
    THEN Raise("FileExistsError",
               <<"[Errno 17] File exists: ", config.output_path.dir>>)
    ELSE Return(existing \cup {config.output_path.dir})

\* output_path.parent.mkdir(parents=True, exist_ok=True)
mkdir(existing, config, f) ==
    IF f = "mkdir" THEN EnvError("mkdir", config)
    ELSE Return(existing \cup {config.output_path.dir})

Prepare(i) ==
    /\ pc[i] = "PREPARE"
    /\ LET r == mkdir(dirs, cfg[i], fault[i])
       IN  IF r.raised
           THEN /\ Caught(i, r)
                /\ UNCHANGED dirs
           ELSE /\ dirs' = r.value
                /\ Advance(i)
                /\ UNCHANGED <<result, nresults, exc>>
    /\ UNCHANGED <<files, files0, dirs0, cfg, fault, df, parsed, textVars, cliVars>>

\* df = pd.read_csv(input_path, **csv_kwargs)
read_csv(fs, config, f) ==
    IF f = "read" \/ fs[config.input_path].kind # "csv" THEN EnvError("read", config)
    ELSE Return(DataFrame(fs[config.input_path].columns, fs[config.input_path].rows))

Read(i) ==
    /\ pc[i] = "READ"
    /\ LET r == read_csv(files, cfg[i], fault[i])
       IN  IF r.raised
           THEN /\ Caught(i, r)
                /\ UNCHANGED <<df, parsed>>
           ELSE /\ df' = [df EXCEPT ![i] = r.value]
                /\ parsed' = [parsed EXCEPT ![i] = r.value]
                /\ Advance(i)
                /\ UNCHANGED <<result, nresults, exc>>
    /\ UNCHANGED <<files, dirs, files0, dirs0, cfg, fault, textVars, cliVars>>

\* validate_columns(df, config.required_columns)
Validate(i) ==
    /\ pc[i] = "VALIDATE"
    /\ LET r == validate_columns(df[i], required_columns(cfg[i]))
       IN  IF r.raised
           THEN Caught(i, r)
           ELSE /\ Advance(i)
                /\ UNCHANGED <<result, nresults, exc>>
    /\ UNCHANGED <<files, dirs, files0, dirs0, cfg, fault, df, parsed, textVars, cliVars>>

\* the loop over config.columns
Repair(i) ==
    /\ pc[i] = "REPAIR"
    /\ LET r == apply_cleaners(df[i], cfg[i].columns, 1)
       IN  IF r.raised
           THEN /\ Caught(i, r)
                /\ UNCHANGED df
           ELSE /\ df' = [df EXCEPT ![i] = r.value]
                /\ Advance(i)
                /\ UNCHANGED <<result, nresults, exc>>
    /\ UNCHANGED <<files, dirs, files0, dirs0, cfg, fault, parsed, textVars, cliVars>>

\* df.to_excel(output_path, index=False, engine="openpyxl"); a write that
\* raises leaves the location as it was or holding a partial file
Export(i) ==
    /\ pc[i] = "EXPORT"
    /\ IF fault[i] = "write" \/ cfg[i].output_path.dir \notin dirs
       THEN /\ Caught(i, EnvError("write", cfg[i]))
            /\ \E left \in {files[cfg[i].output_path], Partial} :
                 files' = [files EXCEPT ![cfg[i].output_path] = left]
       ELSE /\ files' = [files EXCEPT ![cfg[i].output_path] = Workbook(df[i])]
            /\ Advance(i)
            /\ UNCHANGED <<result, nresults, exc>>
    /\ UNCHANGED <<dirs, files0, dirs0, cfg, fault, df, parsed, textVars, cliVars>>

\* format_excel_output(output_path, config), then return CleanerResult(success=True, ...)
Format(i) ==
    /\ pc[i] = "FORMAT"
    /\ LET wb == files[cfg[i].output_path]
           r == IF fault[i] = "load" \/ wb.kind # "xlsx"
                THEN EnvError("load", cfg[i])
                ELSE format_workbook(wb, cfg[i])
       IN  IF r.raised
           THEN /\ Caught(i, r)
                /\ UNCHANGED files
           ELSE IF fault[i] = "save"
           THEN /\ Caught(i, EnvError("save", cfg[i]))
                /\ \E left \in {wb, Partial} :
                     files' = [files EXCEPT ![cfg[i].output_path] = left]
           ELSE /\ files' = [files EXCEPT ![cfg[i].output_path] = r.value]
                /\ ReturnResult(i, success_result(cfg[i], df[i]))
                /\ Advance(i)
                /\ UNCHANGED exc
    /\ UNCHANGED <<dirs, files0, dirs0, cfg, fault, df, parsed, textVars, cliVars>>

Step(i) ==
    \/ Invoke(i)
    \/ CheckExists(i)
    \/ Prepare(i)
    \/ Read(i)
    \/ Validate(i)
    \/ Repair(i)
    \/ Export(i)
    \/ Format(i)

\* the file system before a run: a file that exists lies in a directory that exists
FsConsistent(fs, ds) == \A p \in DOMAIN fs : fs[p].kind # "absent" => p.dir \in ds

TextIdle ==
    /\ value = None
    /\ fn = ""
    /\ out = <<>>
    /\ err = NoException
    /\ again = <<>>

\* main is not running
CliIdle ==
    /\ argv = <<>>
    /\ command = ""
    /\ mainpc = ""
    /\ exit_code = 0
    /\ status = NoStatus
    /\ calls = <<>>

\* one invocation of run_cleaner
Init ==
    /\ \E c \in Configs, f \in Faults, content \in InputContents(Headers, RowKinds, MaxRows),
          old \in {Absent, OldFile},
          ds \in SUBSET {"data/input", "data/output", "tmp", "tmp/out"} :
         /\ ds \subseteq {c.input_path.dir, c.output_path.dir}
         /\ files = (c.input_path :> content) @@ (c.output_path :> old)
         /\ FsConsistent(files, ds)
         /\ dirs = ds
         /\ cfg = [i \in {1} |-> c]
         /\ fault = [i \in {1} |-> f]
    /\ files0 = files
    /\ dirs0 = dirs
    /\ pc = [i \in {1} |-> "START"]
    /\ df = [i \in {1} |-> NoFrame]
    /\ parsed = [i \in {1} |-> NoFrame]
    /\ result = [i \in {1} |-> NoResult]
    /\ nresults = [i \in {1} |-> 0]
    /\ exc = [i \in {1} |-> NoException]
    /\ trace = [i \in {1} |-> <<>>]
    /\ TextIdle
    /\ CliIdle

Next ==
    \/ \E i \in Active : Invoke(i)
    \/ \E i \in Active : CheckExists(i)
    \/ \E i \in Active : Prepare(i)
    \/ \E i \in Active : Read(i)
    \/ \E i \in Active : Validate(i)
    \/ \E i \in Active : Repair(i)
    \/ \E i \in Active : Export(i)
    \/ \E i \in Active : Format(i)

Spec == Init /\ [][Next]_vars

\* a second Comments configuration: the same column descriptors, other locations
CommentsCopyConfig ==
    CleanerConfig(Path("data/input", "Comments2.csv"),
                  Path("data/output", "Comments2.xlsx"), COMMENTS_COLUMNS)

\* the pairs of configurations run concurrently: distinct inputs, distinct
\* outputs, one output directory
ConcurrentPairs ==
    {<<SharesCleanerConfig, CommentsCleanerConfig>>,
     <<CommentsCleanerConfig, CommentsCopyConfig>>}

ConcurrentHeaders == {<<"Date", "Link", "Message">>, <<"Visibility", "Date">>}

\* two invocations of run_cleaner whose steps interleave
InitConc ==
    /\ \E cs \in ConcurrentPairs, f1 \in Faults, f2 \in Faults,
          c1 \in InputContents(ConcurrentHeaders, {1}, MaxRowsConc),
          c2 \in InputContents(ConcurrentHeaders, {1}, MaxRowsConc),
          o1 \in {Absent, OldFile}, o2 \in {Absent, OldFile},
          ds \in {{"data/input"}, {"data/input", "data/output"}} :
         /\ files = (cs[1].input_path :> c1) @@ (cs[1].output_path :> o1)
                     @@ (cs[2].input_path :> c2) @@ (cs[2].output_path :> o2)
         /\ FsConsistent(files, ds)
         /\ dirs = ds
         /\ cfg = cs
         /\ fault = <<f1, f2>>
    /\ files0 = files
    /\ dirs0 = dirs
    /\ pc = [i \in {1, 2} |-> "START"]
    /\ df = [i \in {1, 2} |-> NoFrame]
    /\ parsed = [i \in {1, 2} |-> NoFrame]
    /\ result = [i \in {1, 2} |-> NoResult]
    /\ nresults = [i \in {1, 2} |-> 0]
    /\ exc = [i \in {1, 2} |-> NoException]
    /\ trace = [i \in {1, 2} |-> <<>>]
    /\ TextIdle
    /\ CliIdle

SpecConc == InitConc /\ [][Next]_vars

-----------------------------------------------------------------------------
(* The repair functions on their own *)

TextAlphabet == {QUOTE, NEWLINE, BACKSLASH, SPACE, "a"}

\* the raw cell values handed to the repair functions
TextInputs ==
    {StrVal(t) : t \in SeqsUpTo(TextAlphabet, MaxLen)}
        \cup {None, NaN, IntVal(0), IntVal(12345), IntVal(-7)}

\* values that are no cell values, handed to is_missing
ListInputs == {ListVal(t) : t \in SeqsUpTo({NaN, IntVal(0)}, MaxItems)}

PipelineIdle ==
    /\ files = <<>>
    /\ dirs = {}
    /\ files0 = <<>>
    /\ dirs0 = {}
    /\ cfg = <<>>
    /\ fault = <<>>
    /\ pc = <<>>
    /\ df = <<>>
    /\ parsed = <<>>
    /\ result = <<>>
    /\ nresults = <<>>
    /\ exc = <<>>
    /\ trace = <<>>

InitText ==
    /\ value \in TextInputs \cup ListInputs
    /\ fn = ""
    /\ out = <<>>
    /\ err = NoException
    /\ again = <<>>
    /\ PipelineIdle
    /\ CliIdle

\* one call of a repair function on a raw cell value
Apply(name) ==
    /\ fn = ""
    /\ value \in TextInputs
    /\ fn' = name
    /\ LET r == repair(name, value)
       IN  /\ out' = IF r.raised THEN <<>> ELSE r.value
           /\ err' = IF r.raised THEN r ELSE NoException
    /\ UNCHANGED <<value, again, pipelineVars, cliVars>>

ApplySharesCommentary == Apply("clean_shares_commentary")

ApplyCommentsMessage == Apply("clean_comments_message")

ApplyEmptyField == Apply("clean_empty_field")

ApplyIsMissing ==
    /\ fn = ""
    /\ fn' = "is_missing"
    /\ out' = is_missing(value)
    /\ UNCHANGED <<value, err, again, pipelineVars, cliVars>>

\* the repair function applied once more, to what it returned
SecondPass ==
    /\ fn \in RepairFunctions
    /\ err = NoException
    /\ again = <<>>
    /\ LET r == repair(fn, StrVal(out))
       IN  /\ ~r.raised
           /\ again' = <<r.value>>
    /\ UNCHANGED <<value, fn, out, err, pipelineVars, cliVars>>

NextText ==
    \/ ApplySharesCommentary
    \/ ApplyCommentsMessage
    \/ ApplyEmptyField
    \/ ApplyIsMissing
    \/ SecondPass

SpecText == InitText /\ [][NextText]_vars

-----------------------------------------------------------------------------
(* The derived views of a configuration on their own *)

\* the descriptors of the enumerated configurations
Descriptors ==
    {ColumnConfig(n, w, wr, "") : n \in {"Date", "Message"}, w \in {20, 100}, wr \in BOOLEAN}

\* the enumerated configurations: every one of up to MaxCols descriptors and
\* those around the last spreadsheet letter
TypeInputs ==
    {CleanerConfig(Path("tmp", "input.csv"), Path("tmp", "output.xlsx"), cols) :
        cols \in SeqsUpTo(Descriptors, MaxCols)
                \cup {LongColumns(Len(letters) - 1), LongColumns(Len(letters)),
                      LongColumns(Len(letters) + 1)}}

InitTypes ==
    /\ value \in TypeInputs
    /\ fn = ""
    /\ out = <<>>
    /\ err = NoException
    /\ again = <<>>
    /\ PipelineIdle
    /\ CliIdle

ApplyRequiredColumns ==
    /\ fn = ""
    /\ fn' = "required_columns"
    /\ out' = required_columns(value)
    /\ UNCHANGED <<value, err, again, pipelineVars, cliVars>>

ApplyColumnWidths ==
    /\ fn = ""
    /\ fn' = "column_widths"
    /\ LET r == column_widths(value)
       IN  /\ out' = IF r.raised THEN <<>> ELSE r.value
           /\ err' = IF r.raised THEN r ELSE NoException
    /\ UNCHANGED <<value, again, pipelineVars, cliVars>>

ApplyWrapTextColumns ==
    /\ fn = ""
    /\ fn' = "wrap_text_columns"
    /\ out' = wrap_text_columns(value)
    /\ UNCHANGED <<value, err, again, pipelineVars, cliVars>>

NextTypes ==
    \/ ApplyRequiredColumns
    \/ ApplyColumnWidths
    \/ ApplyWrapTextColumns

SpecTypes == InitTypes /\ [][NextTypes]_vars

-----------------------------------------------------------------------------
(* cli.py *)

\* the command lines main is called with
Argvs == {<<>>, <<"shares">>, <<"comments">>, <<"all">>, <<"--help">>, <<"bogus">>}

\* argparse ends the process by raising SystemExit
SystemExit(code) == [raised |-> TRUE, type |-> "SystemExit", code |-> code]

\* parse_args(argv): args.command, "None" when no subcommand is given; the
\* help action prints the help and exits with 0, an argument that is no
\* subcommand is an error, argparse exits with 2
parse_args(av) ==
    CASE av = <<>> -> Return("None")
      [] av \in {<<"shares">>, <<"comments">>, <<"all">>} -> Return(av[1])
      [] av = <<"--help">> -> SystemExit(0)
      [] OTHER -> SystemExit(2)

\* _handle_result(result)
handle_result(r) == IF r.success THEN 0 ELSE 1

\* the exit code of run_all gone wrong: the code of the last pipeline is kept
aggregate_last_wins(so_far, code) == code

\* if _handle_result(result) != 0: exit_code = 1
aggregate(so_far, code) == IF code # 0 THEN 1 ELSE so_far

\* run_all gone wrong: a failed Shares run ends it
after_shares_stops_on_failure(cmd, code) ==
    IF cmd = "all" /\ code = 0 THEN "call_comments" ELSE "return"

\* where the handler goes on once clean_shares has returned: run_all calls
\* clean_comments, run_shares returns
after_shares(cmd, code) ==
    IF cmd = "all" THEN "call_comments" ELSE "return"

\* run_cleaner has returned or raised
Ended(i) == pc[i] \in {"SUCCESS", "FAIL", "RAISED"}

\* the invocation of run_cleaner main waits for
Current == Len(pc)

Event(pipeline, event) == [pipeline |-> pipeline, event |-> event]

\* args = parse_args(argv); configure_logging(args.log_level)
ParseArgs ==
    /\ mainpc = "main"
    /\ LET a == parse_args(argv)
       IN  IF a.raised
           THEN /\ status' = a
                /\ mainpc' = "done"
                /\ UNCHANGED command
           ELSE /\ command' = a.value
                /\ mainpc' = "parsed"
                /\ UNCHANGED status
    /\ UNCHANGED <<argv, exit_code, calls, pipelineVars, textVars>>

\* if args.command is None: parse_args(["--help"]); return 1
NoCommand ==
    /\ mainpc = "parsed"
    /\ command = "None"
    /\ LET h == parse_args(<<"--help">>)
       IN  status' = IF h.raised THEN h ELSE Return(1)
    /\ mainpc' = "done"
    /\ UNCHANGED <<argv, command, exit_code, calls, pipelineVars, textVars>>

\* handler = command_handlers.get(args.command); try: return handler(args)
Dispatch ==
    /\ mainpc = "parsed"
    /\ command # "None"
    /\ mainpc' = IF command = "comments" THEN "call_comments" ELSE "call_shares"
    /\ exit_code' = 0
    /\ UNCHANGED <<argv, command, status, calls, pipelineVars, textVars>>

\* run_cleaner(config) is called: a new invocation, with the call of the
\* environment that is to raise for it
Call(config) ==
    /\ \E f \in Faults : fault' = Append(fault, f)
    /\ cfg' = Append(cfg, config)
    /\ pc' = Append(pc, "START")
    /\ df' = Append(df, NoFrame)
    /\ parsed' = Append(parsed, NoFrame)
    /\ result' = Append(result, NoResult)
    /\ nresults' = Append(nresults, 0)
    /\ exc' = Append(exc, NoException)
    /\ trace' = Append(trace, <<>>)
    /\ UNCHANGED <<files, dirs, files0, dirs0>>

\* clean_shares(input_path=..., output_path=...): the default locations
CallShares ==
    /\ mainpc = "call_shares"
    /\ Call(SharesCleanerConfig)
    /\ mainpc' = "in_shares"
    /\ calls' = Append(calls, Event("shares", "call"))
    /\ UNCHANGED <<argv, command, exit_code, status, textVars>>

\* clean_comments(input_path=..., output_path=...): the default locations
CallComments ==
    /\ mainpc = "call_comments"
    /\ Call(CommentsCleanerConfig)
    /\ mainpc' = "in_comments"
    /\ calls' = Append(calls, Event("comments", "call"))
    /\ UNCHANGED <<argv, command, exit_code, status, textVars>>

\* except Exception: LOG.exception("Unexpected error"); return 1
Escapes(pipeline) ==
    /\ status' = Return(1)
    /\ mainpc' = "done"
    /\ calls' = Append(calls, Event(pipeline, "raise"))
    /\ UNCHANGED exit_code

\* clean_shares is over: _handle_result(result), in run_shares and in run_all
SharesEnds ==
    /\ mainpc = "in_shares"
    /\ Ended(Current)
    /\ IF pc[Current] = "RAISED" THEN Escapes("shares")
       ELSE LET code == handle_result(result[Current])
            IN  /\ calls' = Append(calls,
                        Event("shares", IF result[Current].success THEN "success" ELSE "failure"))
                /\ IF after_shares(command, code) = "call_comments"
                   THEN /\ exit_code' = aggregate(exit_code, code)
                        /\ mainpc' = "call_comments"
                        /\ UNCHANGED status
                   ELSE /\ status' = Return(code)
                        /\ mainpc' = "done"
                        /\ UNCHANGED exit_code
    /\ UNCHANGED <<argv, command, pipelineVars, textVars>>

\* clean_comments is over: _handle_result(result), in run_comments and in
\* run_all, whose exit_code is then returned
CommentsEnds ==
    /\ mainpc = "in_comments"
    /\ Ended(Current)
    /\ IF pc[Current] = "RAISED" THEN Escapes("comments")
       ELSE LET code == handle_result(result[Current])
            IN  /\ calls' = Append(calls,
                        Event("comments", IF result[Current].success THEN "success" ELSE "failure"))
                /\ exit_code' = IF command = "all" THEN aggregate(exit_code, code) ELSE code
                /\ status' = Return(exit_code')
                /\ mainpc' = "done"
    /\ UNCHANGED <<argv, command, pipelineVars, textVars>>

\* the input files the command line runs are given
CliHeaders ==
    {<<"Date", "ShareLink", "ShareCommentary", "SharedUrl", "MediaUrl", "Visibility">>,
     <<"Date", "Link", "Message">>}

\* main(argv), the file system as it is before
InitCli ==
    /\ argv \in Argvs
    /\ command = ""
    /\ mainpc = "main"
    /\ exit_code = 0
    /\ status = NoStatus
    /\ calls = <<>>
    /\ \E c1 \in InputContents(CliHeaders, {1}, MaxRowsCli),
          c2 \in InputContents(CliHeaders, {1}, MaxRowsCli),
          ds \in {{"data/input"}, {"data/input", "data/output"}} :
         /\ files = (SharesCleanerConfig.input_path :> c1)
                     @@ (SharesCleanerConfig.output_path :> Absent)
                     @@ (CommentsCleanerConfig.input_path :> c2)
                     @@ (CommentsCleanerConfig.output_path :> Absent)
         /\ dirs = ds
    /\ files0 = files
    /\ dirs0 = dirs
    /\ cfg = <<>>
    /\ fault = <<>>
    /\ pc = <<>>
    /\ df = <<>>
    /\ parsed = <<>>
    /\ result = <<>>
    /\ nresults = <<>>
    /\ exc = <<>>
    /\ trace = <<>>
    /\ TextIdle

NextCli ==
    \/ ParseArgs
    \/ NoCommand
    \/ Dispatch
    \/ CallShares
    \/ SharesEnds
    \/ CallComments
    \/ CommentsEnds
    \/ \E i \in Active : Invoke(i)
    \/ \E i \in Active : CheckExists(i)
    \/ \E i \in Active : Prepare(i)
    \/ \E i \in Active : Read(i)
    \/ \E i \in Active : Validate(i)
    \/ \E i \in Active : Repair(i)
    \/ \E i \in Active : Export(i)
    \/ \E i \in Active : Format(i)

SpecCli == InitCli /\ [][NextCli]_vars

-----------------------------------------------------------------------------
(* Properties of run_cleaner *)

\* the invocation has returned a CleanerResult
Returned(i) == nresults[i] >= 1
Failed(i) == Returned(i) /\ ~result[i].success
Succeeded(i) == Returned(i) /\ result[i].success

\* the text holds the pieces of `part` side by side
Mentions(text, part) ==
    \E k \in 1..Len(text) :
        /\ k + Len(part) - 1 <= Len(text)
        /\ SubSeq(text, k, k + Len(part) - 1) = part

\* what lay at the invocation's locations before it started
InputBefore(i) == files0[cfg[i].input_path]
OutputBefore(i) == files0[cfg[i].output_path]
OutputNow(i) == files[cfg[i].output_path]

\* the stage the invocation was in when it reached its present state
LastStage(i) == trace[i][Len(trace[i]) - 1]

\* C1: when the input location does not exist, run_cleaner returns a failure
\* result (success false, zero rows) whose error text mentions the input
\* location, and no output file is created at the output location.
C1_MissingInput ==
    \A i \in Active :
        (InputBefore(i).kind = "absent" /\ pc[i] \notin {"START", "CHECK_EXISTS"}) =>
            /\ pc[i] = "FAIL"
            /\ nresults[i] = 1
            /\ result[i].success = FALSE
            /\ result[i].rows_processed = 0
            /\ result[i].error.kind = "str"
            /\ Mentions(result[i].error.s,
                        <<cfg[i].input_path.dir, "/", cfg[i].input_path.name>>)
            /\ OutputNow(i) = OutputBefore(i)

C1_Witness ==
    /\ InputBefore(1).kind = "absent"
    /\ pc[1] = "FAIL"
    /\ OutputNow(1).kind = "absent"

\* the required names, in configuration order, that the parsed table lacks
MissingRequired(i) ==
    LET names == [k \in 1..Len(cfg[i].columns) |-> cfg[i].columns[k].name]
    IN  SelectSeq(names,
            LAMBDA n : \A j \in 1..Len(parsed[i].columns) : parsed[i].columns[j] # n)

\* C2: when the parsed dataset lacks required columns, run_cleaner fails before
\* any repair and before any export: success false, zero rows, and the error
\* names every missing required column, in configuration order.
C2_MissingColumns ==
    \A i \in Active :
        (/\ "VALIDATE" \in Range(trace[i])
         /\ pc[i] # "VALIDATE"
         /\ MissingRequired(i) # <<>>) =>
            /\ pc[i] = "FAIL"
            /\ nresults[i] = 1
            /\ result[i].success = FALSE
            /\ result[i].rows_processed = 0
            /\ result[i].error.kind = "str"
            /\ Head(result[i].error.s) = "Missing required columns: "
            /\ SelectSeq(result[i].error.s, LAMBDA t : t \in Range(AllColumns))
                 = MissingRequired(i)
            /\ "REPAIR" \notin Range(trace[i])
            /\ "EXPORT" \notin Range(trace[i])
            /\ df[i] = parsed[i]
            /\ OutputNow(i) = OutputBefore(i)

C2_Witness ==
    /\ pc[1] = "FAIL"
    /\ "VALIDATE" \in Range(trace[1])
    /\ Len(MissingRequired(1)) >= 2
    /\ Len(MissingRequired(1)) < Len(cfg[1].columns)
    /\ Len(parsed[1].rows) >= 1

\* C3: run_cleaner never propagates an exception: whichever step raises
\* (existence check, read, validation, repair, export, formatting), it returns a
\* failure result with success false, zero rows and the exception's message.
C3_NeverPropagates ==
    \A i \in Active :
        exc[i].raised =>
            /\ pc[i] = "FAIL"
            /\ nresults[i] = 1
            /\ result[i].success = FALSE
            /\ result[i].rows_processed = 0
            /\ result[i].error = StrVal(exc[i].msg)

\* the stages of the state machine, PREPARE (the mkdir of the output
\* directory, between the existence check and the read) left out
ClaimStages == <<"CHECK_EXISTS", "READ", "VALIDATE", "REPAIR", "EXPORT", "FORMAT">>
Terminal == {"FAIL", "SUCCESS", "RAISED"}

StagesEntered(i) == SelectSeq(trace[i], LAMBDA s : s \in Range(ClaimStages))
EndsEntered(i) == SelectSeq(trace[i], LAMBDA s : s \in Terminal)

\* C4: the stages are entered only in the order CHECK_EXISTS, READ, VALIDATE,
\* REPAIR, EXPORT, FORMAT, each at most once and each only after its predecessor
\* completed without error; none is entered after FAIL; SUCCESS is reached only
\* after FORMAT completed without error.
C4_StageOrder ==
    \A i \in Active :
        /\ StagesEntered(i) = SubSeq(ClaimStages, 1, Len(StagesEntered(i)))
        /\ Len(EndsEntered(i)) <= 1
        /\ (EndsEntered(i) # <<>> =>
                /\ trace[i][Len(trace[i])] \in Terminal
                /\ pc[i] \in Terminal)
        /\ (pc[i] \in Range(ClaimStages) =>
                /\ trace[i][Len(trace[i])] = pc[i]
                /\ nresults[i] = 0)
        /\ ("SUCCESS" \in Range(trace[i]) =>
                /\ StagesEntered(i) = ClaimStages
                /\ LastStage(i) = "FORMAT"
                /\ ~exc[i].raised)

C4_Witness ==
    /\ pc[1] = "SUCCESS"
    /\ StagesEntered(1) = ClaimStages

\* C5: every invocation ends in exactly one terminal state, FAIL or SUCCESS,
\* with exactly one result produced; a terminal state has no outgoing transition.
C5_OneTerminalOneResult ==
    \A i \in Active :
        /\ nresults[i] <= 1
        /\ (pc[i] \in {"FAIL", "SUCCESS"} => nresults[i] = 1 /\ ~ENABLED Step(i))
        /\ (~ENABLED Step(i) => pc[i] \in {"FAIL", "SUCCESS"} /\ nresults[i] = 1)

\* C6: a result with success true has rows_processed equal to the number of
\* rows of the parsed dataset, no error, the configuration's locations, and the
\* output file has been written and formatted.
C6_SuccessResult ==
    \A i \in Active :
        Succeeded(i) =>
            /\ InputBefore(i).kind = "csv"
            /\ result[i].rows_processed = Len(InputBefore(i).rows)
            /\ result[i].error = None
            /\ result[i].input_path = cfg[i].input_path
            /\ result[i].output_path = cfg[i].output_path
            /\ OutputNow(i).kind = "xlsx"
            /\ OutputNow(i).header_centered
            /\ DOMAIN OutputNow(i).widths =
                 {letters[k] : k \in 1..Len(cfg[i].columns)}

C6_Witness ==
    /\ Succeeded(1)
    /\ result[1].rows_processed = 2
    /\ Len(InputBefore(1).columns) # 2

\* the cleaner the configuration attaches to a column name, "" if none
CleanerOf(i, name) ==
    IF \E k \in 1..Len(cfg[i].columns) :
          cfg[i].columns[k].name = name /\ cfg[i].columns[k].cleaner # ""
    THEN cfg[i].columns[CHOOSE k \in 1..Len(cfg[i].columns) :
            cfg[i].columns[k].name = name /\ cfg[i].columns[k].cleaner # ""].cleaner
    ELSE ""

\* C7: in a successful run the exported rows are the parsed rows, same number
\* and order: a cell of a column with a repair function holds that function of
\* the parsed cell, every other cell is unchanged.
C7_ExportedRows ==
    \A i \in Active :
        pc[i] = "SUCCESS" =>
            LET src == InputBefore(i)
                wb == OutputNow(i)
            IN  /\ wb.header = src.columns
                /\ Len(wb.rows) = Len(src.rows)
                /\ \A r \in 1..Len(src.rows) :
                     /\ DOMAIN wb.rows[r] = Range(src.columns)
                     /\ \A c \in Range(src.columns) :
                          wb.rows[r][c] =
                            IF CleanerOf(i, c) = "" THEN src.rows[r][c]
                            ELSE call_cleaner(CleanerOf(i, c), src.rows[r][c]).value

C7_Witness ==
    /\ pc[1] = "SUCCESS"
    /\ Len(OutputNow(1).rows) = 2
    /\ OutputNow(1).rows[1] # OutputNow(1).rows[2]
    /\ OutputNow(1).rows # InputBefore(1).rows
    /\ \E c \in Range(InputBefore(1).columns) :
         \A k \in 1..Len(cfg[1].columns) : cfg[1].columns[k].name # c

\* C8 as stated: whenever run_cleaner returns a failure, the invocation has
\* left no output file written by it at the output location.
C8_NoFileOnFailure ==
    \A i \in Active : Failed(i) => OutputNow(i) = OutputBefore(i)

\* C8 as amended: a failure returned from a stage before the export leaves no
\* output file written by the invocation; a file written by the invocation lies
\* at the output location only once the export stage was entered, and after a
\* failure only when the export or the formatting raised.
C8_FileOnlyAfterExport ==
    \A i \in Active :
        /\ (OutputNow(i) # OutputBefore(i) => "EXPORT" \in Range(trace[i]))
        /\ (Failed(i) /\ LastStage(i) \notin {"EXPORT", "FORMAT"} =>
                OutputNow(i) = OutputBefore(i))
        /\ (Succeeded(i) => OutputNow(i).kind = "xlsx")

C8_Witness ==
    /\ Failed(1)
    /\ LastStage(1) = "FORMAT"
    /\ OutputNow(1).kind = "xlsx"
    /\ OutputBefore(1).kind = "absent"

\* C21 as stated: the output directory is prepared before the failure for an
\* input that does not exist is returned (which is how such a run could end
\* with the output directory created).
C21_PreparedBeforeMissingInput ==
    \A i \in Active :
        (InputBefore(i).kind = "absent" /\ Failed(i)) =>
            "PREPARE" \in Range(trace[i])

\* C21 as amended: the input is looked for before the output directory is
\* prepared; a run on an input that does not exist returns its failure
\* without preparing the output location: no directory is created and no
\* output file is written.
C21_MissingInputPreparesNothing ==
    \A i \in Active :
        (InputBefore(i).kind = "absent" /\ Failed(i)) =>
            /\ "PREPARE" \notin Range(trace[i])
            /\ dirs = dirs0
            /\ OutputNow(i) = OutputBefore(i)

\* the input is absent, the output directory was not there and is not there
\* after the failure
C21_Witness ==
    /\ InputBefore(1).kind = "absent"
    /\ Failed(1)
    /\ cfg[1].output_path.dir \notin dirs0
    /\ cfg[1].output_path.dir \notin dirs

\* the stages of run_cleaner that come before the export
C22_BeforeExport == {"CHECK_EXISTS", "PREPARE", "READ", "VALIDATE", "REPAIR"}

\* C22: whenever run_cleaner fails at a stage before the export (input
\* missing, read error, missing required columns, an exception raised by a
\* repair function), the content at the output location is exactly what it
\* was before the invocation: an absent file is still absent, a file that was
\* there is as it was.
C22_OutputUntouched ==
    \A i \in Active :
        (Failed(i) /\ LastStage(i) \in C22_BeforeExport) =>
            /\ "EXPORT" \notin Range(trace[i])
            /\ files[cfg[i].output_path] = files0[cfg[i].output_path]
            /\ files0[cfg[i].output_path].kind = "absent"
                    => files[cfg[i].output_path].kind = "absent"
            /\ files0[cfg[i].output_path].kind = "old"
                    => files[cfg[i].output_path].kind = "old"

\* a repair function raised: the output file of an earlier run is still there
C22_Witness ==
    /\ Failed(1)
    /\ LastStage(1) = "REPAIR"
    /\ exc[1].raised
    /\ files0[cfg[1].output_path].kind = "old"
    /\ files[cfg[1].output_path].kind = "old"

\* the configuration has more descriptors than there are letters, the input
\* holds all its columns and no call of the environment raises
C24_Case(i) ==
    /\ Len(cfg[i].columns) > 26
    /\ files0[cfg[i].input_path].kind = "csv"
    /\ \A k \in 1..Len(cfg[i].columns) :
         \E j \in 1..Len(files0[cfg[i].input_path].columns) :
            files0[cfg[i].input_path].columns[j] = cfg[i].columns[k].name
    /\ fault[i] = "none"

\* C24: for a configuration of more than 26 column descriptors whose columns
\* are all in the input, run_cleaner does not succeed: the mapping of letters
\* to widths fails in the formatting step, past Z there is no letter; the
\* result is a failure with rows_processed = 0, and the unformatted output file
\* is already written.
C24_TooManyColumns ==
    \A i \in Active :
        /\ Len(cfg[i].columns) > 26 => pc[i] # "SUCCESS"
        /\ (C24_Case(i) /\ pc[i] \in {"SUCCESS", "FAIL", "RAISED"}) =>
                /\ pc[i] = "FAIL"
                /\ LastStage(i) = "FORMAT"
                /\ exc[i].raised
                /\ exc[i].type = "IndexError"
                /\ nresults[i] = 1
                /\ ~result[i].success
                /\ result[i].rows_processed = 0
                /\ files[cfg[i].output_path].kind = "xlsx"
                /\ files[cfg[i].output_path].header = files0[cfg[i].input_path].columns
                /\ Len(files[cfg[i].output_path].rows) = Len(files0[cfg[i].input_path].rows)
                /\ DOMAIN files[cfg[i].output_path].widths = {}
                /\ files[cfg[i].output_path].wrapped = {}
                /\ ~files[cfg[i].output_path].header_centered

\* 27 descriptors, two rows: the failure is returned and the file is there
C24_Witness ==
    /\ C24_Case(1)
    /\ Len(cfg[1].columns) = 27
    /\ pc[1] = "FAIL"
    /\ exc[1].type = "IndexError"
    /\ files0[cfg[1].output_path].kind = "absent"
    /\ files[cfg[1].output_path].kind = "xlsx"
    /\ Len(files[cfg[1].output_path].rows) = 2

\* the outcomes of one invocation run on its own from the file system fs, ds:
\* the stages in program order, each on what the one before it left
AloneOutcomes(c, f, fs, ds) ==
    LET before == fs[c.output_path]
        failed(e, left) == [result |-> failure_result(c, e), file |-> left]
        ex == exists(fs, c)
        mk == mkdir(ds, c, f)
        rd == read_csv(fs, c, f)
        va == validate_columns(rd.value, required_columns(c))
        rp == apply_cleaners(rd.value, c.columns, 1)
        wb == Workbook(rp.value)
        fm == IF f = "load" THEN EnvError("load", c) ELSE format_workbook(wb, c)
    IN  IF ex.raised THEN {[result |-> NoResult, file |-> before]}
        ELSE IF ~ex.value THEN {[result |-> missing_input_result(c), file |-> before]}
        ELSE IF mk.raised THEN {failed(mk, before)}
        ELSE IF rd.raised THEN {failed(rd, before)}
        ELSE IF va.raised THEN {failed(va, before)}
        ELSE IF rp.raised THEN {failed(rp, before)}
        ELSE IF f = "write" THEN {failed(EnvError("write", c), left) : left \in {before, Partial}}
        ELSE IF fm.raised THEN {failed(fm, wb)}
        ELSE IF f = "save" THEN {failed(EnvError("save", c), left) : left \in {wb, Partial}}
        ELSE {[result |-> success_result(c, rp.value), file |-> fm.value]}

\* C9: two invocations with distinct inputs and distinct outputs, sharing the
\* output directory and possibly the column descriptors, do not interfere: under
\* every interleaving each one's result and output file are those it produces
\* when run alone from the same file system.
C9_NoInterference ==
    \A i \in Active :
        pc[i] \in Terminal =>
            [result |-> result[i], file |-> OutputNow(i)]
                \in AloneOutcomes(cfg[i], fault[i], files0, dirs0)

C9_Witness ==
    /\ Active = {1, 2}
    /\ "data/output" \notin dirs0
    /\ cfg[1].columns = cfg[2].columns
    /\ pc[1] = "SUCCESS"
    /\ pc[2] = "FAIL"
    /\ LastStage(2) = "FORMAT"
    /\ Len(OutputNow(1).rows) = 1

-----------------------------------------------------------------------------
(* Properties of the repair functions *)

C10_DropLeadingQuote(s) ==
    IF Len(s) >= 1 /\ s[1] = QUOTE THEN [k \in 1..(Len(s) - 1) |-> s[k + 1]] ELSE s

C10_DropTrailingQuote(s) ==
    IF Len(s) >= 1 /\ s[Len(s)] = QUOTE THEN [k \in 1..(Len(s) - 1) |-> s[k]] ELSE s

\* every occurrence of pat in s, scanning from position i leftmost first and
\* past each occurrence taken, replaced by rep
RECURSIVE C10_ReplaceFrom(_, _, _, _)
C10_ReplaceFrom(s, i, pat, rep) ==
    IF i > Len(s) THEN <<>>
    ELSE IF /\ i + Len(pat) - 1 <= Len(s)
            /\ \A k \in 1..Len(pat) : s[i + k - 1] = pat[k]
         THEN rep \o C10_ReplaceFrom(s, i + Len(pat), pat, rep)
         ELSE <<s[i]>> \o C10_ReplaceFrom(s, i + 1, pat, rep)

\* s from its first to its last character that is not whitespace
C10_Strip(s) ==
    LET solid == {k \in 1..Len(s) : s[k] \notin {" ", "\n", "\t", "\r"}}
    IN  IF solid = {} THEN <<>>
        ELSE SubSeq(s, CHOOSE k \in solid : \A j \in solid : k <= j,
                       CHOOSE k \in solid : \A j \in solid : k >= j)

C10_Steps(v) ==
    IF v.kind \in {"none", "nan"} THEN <<>>
    ELSE LET s2 == str(v)
             s3 == C10_DropLeadingQuote(s2)
             s4 == C10_DropTrailingQuote(s3)
             s5 == C10_ReplaceFrom(s4, 1, <<QUOTE, NEWLINE, QUOTE>>, <<NEWLINE>>)
             s6 == C10_ReplaceFrom(s5, 1, <<QUOTE, QUOTE>>, <<QUOTE>>)
         IN  C10_Strip(s6)

\* C10: clean_shares_commentary returns: the empty string for a missing value;
\* otherwise the stringified value with one leading quote dropped, then one
\* trailing quote dropped, then every quote-newline-quote replaced by a newline,
\* then every two consecutive quotes replaced by one, then whitespace stripped
\* at both ends.  The quote dropping precedes the doubled-quote collapse.
C10_SharesSteps ==
    fn = "clean_shares_commentary" => out = C10_Steps(value)

\* an input on which the order of quote dropping and collapse shows
C10_Witness ==
    /\ fn = "clean_shares_commentary"
    /\ value = StrVal(<<QUOTE, QUOTE, "a", QUOTE>>)
    /\ out = <<QUOTE, "a">>

Quotes(s) == Cardinality({k \in 1..Len(s) : s[k] = QUOTE})

\* s still holds quotes clean_shares_commentary acts on: a quote at either end,
\* two quotes in a row, or a quote-newline-quote
C11_QuotesLeft(s) ==
    \/ s # <<>> /\ (s[1] = QUOTE \/ s[Len(s)] = QUOTE)
    \/ \E k \in 1..(Len(s) - 1) : s[k] = QUOTE /\ s[k + 1] = QUOTE
    \/ \E k \in 1..(Len(s) - 2) :
            s[k] = QUOTE /\ s[k + 1] = NEWLINE /\ s[k + 2] = QUOTE

\* C11: clean_shares_commentary is not idempotent: there is an input s, the
\* two quotes followed by a letter, with f(f(s)) # f(s); a second pass differs
\* from the first exactly when the first left quotes it acts on, and then it
\* returns fewer quotes than it was given.
C11_NotIdempotent ==
    (fn = "clean_shares_commentary" /\ again # <<>>) =>
        /\ value = StrVal(<<QUOTE, QUOTE, "a">>) => again[1] # out
        /\ again[1] # out <=> C11_QuotesLeft(out)
        /\ again[1] # out => Quotes(again[1]) < Quotes(out)

\* four quotes: the first pass returns one quote, the second the empty string
C11_Witness ==
    /\ fn = "clean_shares_commentary"
    /\ value = StrVal(<<QUOTE, QUOTE, QUOTE, QUOTE>>)
    /\ out = <<QUOTE>>
    /\ again = << <<>> >>

C12_Steps(v) ==
    IF v.kind \in {"none", "nan"} THEN <<>>
    ELSE LET s2 == str(v)
             s3 == C10_ReplaceFrom(s2, 1, <<BACKSLASH, QUOTE>>, <<QUOTE>>)
             s4 == C10_ReplaceFrom(s3, 1, <<QUOTE, QUOTE>>, <<QUOTE>>)
         IN  C10_Strip(s4)

\* C12: clean_comments_message returns: the empty string for a missing value;
\* otherwise the stringified value with every backslash-quote replaced by a
\* bare quote, then every two consecutive quotes replaced by one (leftmost
\* first, non-overlapping), then whitespace stripped at both ends.
C12_CommentsSteps ==
    fn = "clean_comments_message" => out = C12_Steps(value)

\* two escaped quotes in a row: unescaped first, they are then collapsed
C12_Witness ==
    /\ fn = "clean_comments_message"
    /\ value = StrVal(<<BACKSLASH, QUOTE, BACKSLASH, QUOTE>>)
    /\ out = <<QUOTE>>

Newlines(s) == Cardinality({k \in 1..Len(s) : s[k] = NEWLINE})

\* s without the characters clean_comments_message rewrites
C13_Plain(s) == SelectSeq(s, LAMBDA c : c \notin {QUOTE, BACKSLASH})

\* C13: clean_comments_message keeps embedded newlines: for every input that is
\* not missing, the newlines between the first and the last non-whitespace
\* character of the input are in the output in the same number and at the
\* same places among the other characters.
C13_NewlinesKept ==
    (fn = "clean_comments_message" /\ value.kind \notin {"none", "nan"}) =>
        /\ Newlines(out) = Newlines(C10_Strip(str(value)))
        /\ C13_Plain(out) = C13_Plain(C10_Strip(str(value)))

\* a newline before the first letter is stripped, the one between the letters
\* stays
C13_Witness ==
    /\ fn = "clean_comments_message"
    /\ value = StrVal(<<NEWLINE, "a", NEWLINE, "a">>)
    /\ out = <<"a", NEWLINE, "a">>

\* C14: clean_empty_field returns the empty string when the value is missing
\* or its stringified, stripped form is empty, one quote or two quotes;
\* otherwise it returns exactly the stringified, stripped value.
C14_EmptyField ==
    fn = "clean_empty_field" =>
        out = IF value.kind \in {"none", "nan"} THEN <<>>
              ELSE IF C10_Strip(str(value)) \in {<<>>, <<QUOTE>>, <<QUOTE, QUOTE>>}
              THEN <<>>
              ELSE C10_Strip(str(value))

\* two quotes between spaces count as empty
C14_Witness ==
    /\ fn = "clean_empty_field"
    /\ value = StrVal(<<SPACE, QUOTE, QUOTE, SPACE>>)
    /\ out = <<>>

\* C15: is_missing returns true exactly for None and the NaN / null sentinels
\* of the tabular runtime, and false for every other value, the empty string,
\* zero and whitespace-only strings among them; it never raises, and returns
\* false when the missingness check raises a type or value error.
C15_IsMissing ==
    fn = "is_missing" =>
        /\ out = (value.kind \in {"none", "nan"})
        /\ err = NoException

\* the characters of the strings str() makes of the enumerated values
C16_Chars == TextAlphabet \cup Range(DigitChars) \cup {"-"}

C23_AllEscaped(s) ==
    \A k \in 1..Len(s) : s[k] = QUOTE => (k > 1 /\ s[k - 1] = BACKSLASH)

C23_Pairs(s) ==
    Cardinality({k \in 1..(Len(s) - 1) : s[k] = BACKSLASH /\ s[k + 1] = QUOTE})

\* C23: for every input string whose quotes all occur as backslash-quote pairs,
\* the output of clean_comments_message holds exactly one quote for each
\* backslash-quote pair of the input, adjacent pairs included.
C23_OneQuotePerEscapedQuote ==
    (fn = "clean_comments_message" /\ value.kind = "str" /\ C23_AllEscaped(value.s)) =>
        Quotes(out) = C23_Pairs(value.s)

-----------------------------------------------------------------------------
(* Properties of the command line *)

MainEnded == mainpc = "done"

\* C17: for a recognised subcommand (shares, comments, all) main returns, and
\* it returns 0 if and only if every pipeline it invoked returned a success
\* result; it returns 1 if an invoked pipeline returned a failure result and
\* 1 if an exception left the subcommand handler.
C17_ExitCode ==
    (MainEnded /\ command \in {"shares", "comments", "all"}) =>
        /\ ~status.raised
        /\ status.value \in {0, 1}
        /\ status.value = 0 <=>
                \A i \in Active : nresults[i] = 1 /\ result[i].success
        /\ (\E i \in Active : nresults[i] = 1 /\ ~result[i].success) => status.value = 1
        /\ (\E i \in Active : exc[i].raised /\ nresults[i] = 0) => status.value = 1

\* all: Shares failed, Comments succeeded, the exit code is 1
C17_Witness ==
    /\ MainEnded
    /\ command = "all"
    /\ Active = {1, 2}
    /\ nresults = <<1, 1>>
    /\ ~result[1].success
    /\ result[2].success
    /\ status = Return(1)

\* C18: when no subcommand is given, main ends with exit code 1.
C18_NoCommand ==
    (MainEnded /\ command = "None") =>
        \/ ~status.raised /\ status.value = 1
        \/ status.raised /\ status.type = "SystemExit" /\ status.code = 1

\* the calls made and ended so far, for the all subcommand
C20_Order ==
    <<Event("shares", "call"), Event("shares", "over"),
      Event("comments", "call"), Event("comments", "over")>>

\* an end of a pipeline, however it ended
C20_Shape(e) ==
    IF e.event = "call" THEN e ELSE Event(e.pipeline, "over")

C20_Has(e) == \E k \in 1..Len(calls) : calls[k] = e

-----------------------------------------------------------------------------
(* Properties of the configuration *)

C19_Alphabet ==
    <<"A", "B", "C", "D", "E", "F", "G", "H", "I", "J", "K", "L", "M",
      "N", "O", "P", "Q", "R", "S", "T", "U", "V", "W", "X", "Y", "Z">>

\* C19: for every configuration of at most 26 descriptors: required_columns
\* is the descriptor names in configuration order; column_widths maps the
\* i-th spreadsheet letter to the width of the i-th descriptor, for every
\* position i, and has no other key; wrap_text_columns is the ascending list
\* of exactly the positions, counted from 1, whose descriptor has wrap
\* enabled.
C19_DerivedViews ==
    (fn \in {"required_columns", "column_widths", "wrap_text_columns"}
        /\ Len(value.columns) <= 26) =>
        LET cols == value.columns
            n == Len(cols)
        IN  /\ fn = "required_columns" =>
                /\ Len(out) = n
                /\ \A i \in 1..n : out[i] = cols[i].name
            /\ fn = "column_widths" =>
                /\ err = NoException
                /\ DOMAIN out = {C19_Alphabet[i] : i \in 1..n}
                /\ \A i \in 1..n : out[C19_Alphabet[i]] = cols[i].width
            /\ fn = "wrap_text_columns" =>
                /\ \A k \in 1..(Len(out) - 1) : out[k] < out[k + 1]
                /\ {out[k] : k \in 1..Len(out)} = {i \in 1..n : cols[i].wrap_text}

\* 26 descriptors: the last one is under the letter Z
C19_Witness ==
    /\ fn = "column_widths"
    /\ Len(value.columns) = 26
    /\ err = NoException
    /\ out["Z"] = value.columns[26].width

====
